---- MODULE Spec2Model ----
(***************************************************************************)
(* Model of mynote_sorter.py: ChunkParser.split, the Chunk normalizers,    *)
(* ChunkOrganizer.sort_chunks and TextSorterApp.run.                       *)
(*                                                                         *)
(* A Python str is modelled as the sequence of its Unicode code points, so *)
(* that regular-expression matching, str.strip, str.splitlines and the     *)
(* code-point ordering used by list.sort are computed as the code computes *)
(* them.  None is modelled as NoneStr where a str|None is returned.        *)
(***************************************************************************)
EXTENDS Integers, Sequences, FiniteSets

\* ------------------------------------------------------------------------
\* Characters (code points) the regular expressions and str methods name
\* ------------------------------------------------------------------------
LF == 10
CR == 13
SP == 32
HASH == 35
LPAREN == 40
RPAREN == 41
DASH == 45
SLASH == 47
DIGIT0 == 48
DIGIT9 == 57
UPPERX == 88
LBRACK == 91
RBRACK == 93
LOWERX == 120

\* str.isspace characters: what \s matches and what strip()/lstrip()/rstrip()
\* remove (Python 3 str patterns are Unicode-aware).
WhiteSpace ==
    {9, 10, 11, 12, 13, 28, 29, 30, 31, 32, 133, 160, 5760, 8232, 8233, 8239,
     8287, 12288} \cup (8192..8202)

\* Line boundaries of str.splitlines (CR LF counts as one boundary).
LineBreaks == {10, 11, 12, 13, 28, 29, 30, 133, 8232, 8233}

\* WEEKDAYS_JP = ["月", "火", "水", "木", "金", "土", "日"]
WEEKDAYS_JP == <<26376, 28779, 27700, 26408, 37329, 22303, 26085>>

\* Mon|Tue|Wed|Thu|Fri|Sat|Sun of the (?P<wd>...) groups.
WEEKDAYS_EN ==
    << <<77, 111, 110>>, <<84, 117, 101>>, <<87, 101, 100>>, <<84, 104, 117>>,
       <<70, 114, 105>>, <<83, 97, 116>>, <<83, 117, 110>> >>

\* "## [" : the literal of line.startswith / first_line.startswith.
HeaderMarker == <<HASH, HASH, SP, LBRACK>>

\* The value standing for None where the code returns str | None.
NoneStr == <<-1>>

\* ------------------------------------------------------------------------
\* str helpers
\* ------------------------------------------------------------------------
Min(S) == CHOOSE x \in S : \A y \in S : x <= y

Max(S) == CHOOSE x \in S : \A y \in S : y <= x

Take(s, n) == SubSeq(s, 1, n)

Drop(s, n) == SubSeq(s, n + 1, Len(s))

StartsWith(s, p) == Len(s) >= Len(p) /\ SubSeq(s, 1, Len(p)) = p

EndsWithLF(s) == Len(s) > 0 /\ s[Len(s)] = LF

\* The positions >= i of s that hold no whitespace.
NonSpaceFrom(s, i) == {j \in i..Len(s) : s[j] \notin WhiteSpace}

\* The first position >= i of s that holds no whitespace (Len(s)+1 if none):
\* where a greedy \s* ends when the next item of the pattern is no whitespace.
SkipWS(s, i) ==
    IF NonSpaceFrom(s, i) = {} THEN Len(s) + 1 ELSE Min(NonSpaceFrom(s, i))

\* s.lstrip()
LStrip(s) == Drop(s, SkipWS(s, 1) - 1)

\* s.rstrip()
RStrip(s) ==
    IF NonSpaceFrom(s, 1) = {} THEN <<>> ELSE Take(s, Max(NonSpaceFrom(s, 1)))

\* s.strip()
Strip(s) == LStrip(RStrip(s))

\* s.rstrip("\n")
RStripLF(s) ==
    IF \A j \in 1..Len(s) : s[j] = LF THEN <<>>
    ELSE Take(s, Max({j \in 1..Len(s) : s[j] # LF}))

\* "".join(parts)
RECURSIVE Join(_)
Join(parts) ==
    IF parts = <<>> THEN <<>> ELSE Head(parts) \o Join(Tail(parts))

\* The positions of s that hold a line boundary character.
BreaksOf(s) == {i \in 1..Len(s) : s[i] \in LineBreaks}

\* The last position of the line boundary that starts at i (CR LF is one).
BreakEnd(s, i) ==
    IF s[i] = CR /\ i < Len(s) /\ s[i + 1] = LF THEN i + 1 ELSE i

\* s.splitlines(keepends=True); SplitFrom cuts the first line, which ends at e.
RECURSIVE SplitLines(_)
SplitFrom(s, e) == <<Take(s, e)>> \o SplitLines(Drop(s, e))

SplitLines(s) ==
    IF s = <<>> THEN <<>>
    ELSE IF BreaksOf(s) = {} THEN <<s>>
    ELSE SplitFrom(s, BreakEnd(s, Min(BreaksOf(s))))

\* One line of splitlines(keepends=True) without its line boundary: the
\* element splitlines() (keepends=False) returns for it.
StripBreak(line) ==
    IF Len(line) >= 2 /\ line[Len(line) - 1] = CR /\ line[Len(line)] = LF
    THEN Take(line, Len(line) - 2)
    ELSE IF Len(line) >= 1 /\ line[Len(line)] \in LineBreaks
    THEN Take(line, Len(line) - 1)
    ELSE line

\* a < b for Python str: code-point lexicographic order.
RECURSIVE StrLess(_, _)
StrLess(a, b) ==
    IF b = <<>> THEN FALSE
    ELSE IF a = <<>> THEN TRUE
    ELSE IF a[1] # b[1] THEN a[1] < b[1]
    ELSE StrLess(Tail(a), Tail(b))

\* ------------------------------------------------------------------------
\* Regular expressions
\* ------------------------------------------------------------------------
\* The three patterns are only ever matched against one line whose trailing
\* line feed has been removed (first_line, or line.rstrip("\n") of an element of
\* splitlines), so "." matches every character and "$" the end of the string.
\* A match is a record of the named groups with ok = TRUE; NoMatch is the None
\* that match() returns.
NoMatch == [ok |-> FALSE]

\* \d for the ASCII digits.
IsDigit(c) == DIGIT0 <= c /\ c <= DIGIT9

\* \d{4}/\d{2}/\d{2} matches s at position i.
DateAt(s, i) ==
    /\ i >= 1
    /\ i + 9 <= Len(s)
    /\ \A k \in {0, 1, 2, 3, 5, 6, 8, 9} : IsDigit(s[i + k])
    /\ s[i + 4] = SLASH
    /\ s[i + 7] = SLASH

\* The length of \((?:Mon|Tue|Wed|Thu|Fri|Sat|Sun|月|火|水|木|金|土|日)\) matched
\* at position i of s, 0 when it does not match there.
WdLenAt(s, i) ==
    IF i + 4 <= Len(s) /\ s[i] = LPAREN /\ s[i + 4] = RPAREN
       /\ \E k \in 1..7 : SubSeq(s, i + 1, i + 3) = WEEKDAYS_EN[k]
    THEN 5
    ELSE IF i + 2 <= Len(s) /\ s[i] = LPAREN /\ s[i + 2] = RPAREN
            /\ \E k \in 1..7 : s[i + 1] = WEEKDAYS_JP[k]
    THEN 3
    ELSE 0

\* (?:\s*(?P<wd>...))? tried at position i: the position after the group, which
\* is i itself when the optional group does not take part in the match; j is
\* where the \s* of the group ends.
AfterWdFrom(s, i, j) == IF WdLenAt(s, j) > 0 THEN j + WdLenAt(s, j) ELSE i

AfterWd(s, i) == AfterWdFrom(s, i, SkipWS(s, i))

\* HEADER_RE.match(line): ^## \[(?P<tag>.*?)\].*$ ; the tag group, NoneStr when
\* the line does not match.
TagCloses(line) == {i \in 5..Len(line) : line[i] = RBRACK}

HeaderReTag(line) ==
    IF StartsWith(line, HeaderMarker) /\ TagCloses(line) # {}
    THEN SubSeq(line, 5, Min(TagCloses(line)) - 1)
    ELSE NoneStr

\* HEADER_WITH_DATE_RE.match(h).  The lazy tag group ends at the first "]" that
\* is followed by optional whitespace and a date: c is that position, d the
\* position of the date, w the position after the optional weekday group.
HeaderFields(h, c, d, w) ==
    [ok |-> TRUE,
     prefix |-> Take(h, c),
     date |-> SubSeq(h, d, d + 9),
     wd |-> SubSeq(h, SkipWS(h, d + 10), w - 1),
     title |-> Drop(h, SkipWS(h, w) - 1)]

HeaderFromDate(h, c, d) == HeaderFields(h, c, d, AfterWd(h, d + 10))

HeaderFromClose(h, c) == HeaderFromDate(h, c, SkipWS(h, c + 1))

DateCloses(h) ==
    {i \in 5..Len(h) : h[i] = RBRACK /\ DateAt(h, SkipWS(h, i + 1))}

HeaderWithDateMatch(h) ==
    IF StartsWith(h, HeaderMarker) /\ DateCloses(h) # {}
    THEN HeaderFromClose(h, Min(DateCloses(h)))
    ELSE NoMatch

\* CHILD_LINE_RE.match(s), left to right: a is the position after the indent,
\* b the position after "-\s*", d the position where the date must start, w the
\* position after the optional weekday group.
ChildFields(s, a, check, d, w) ==
    [ok |-> TRUE,
     indent |-> Take(s, a - 1),
     check |-> check,
     date |-> SubSeq(s, d, d + 9),
     wd |-> SubSeq(s, SkipWS(s, d + 10), w - 1),
     rest |-> Drop(s, w - 1)]

\* (?P<date>...) then the weekday group and (?P<rest>.*)$
ChildFromDate(s, a, check, d) ==
    IF DateAt(s, d) THEN ChildFields(s, a, check, d, AfterWd(s, d + 10)) ELSE NoMatch

\* (?:(?:\[(?P<check>[xX ]?)\])\s*)? : with c the position of "]"
ChildFromBox(s, a, b, c) ==
    IF c <= Len(s) /\ s[c] = RBRACK
    THEN ChildFromDate(s, a, SubSeq(s, b + 1, c - 1), SkipWS(s, c + 1))
    ELSE NoMatch

ChildFromDash(s, a, b) ==
    IF b <= Len(s) /\ s[b] = LBRACK
    THEN ChildFromBox(s, a, b,
                      IF b + 1 <= Len(s) /\ s[b + 1] \in {LOWERX, UPPERX, SP}
                      THEN b + 2 ELSE b + 1)
    ELSE ChildFromDate(s, a, <<>>, b)

\* ^(?P<indent>\s*)-\s*
ChildFromIndent(s, a) ==
    IF a <= Len(s) /\ s[a] = DASH THEN ChildFromDash(s, a, SkipWS(s, a + 1)) ELSE NoMatch

ChildLineMatch(s) == ChildFromIndent(s, SkipWS(s, 1))

\* ------------------------------------------------------------------------
\* Weekday of a date (datetime.date(y, m, d).weekday(), Monday = 0)
\* ------------------------------------------------------------------------
\* int(s) for a string of decimal digits
RECURSIVE ParseInt(_)
ParseInt(s) ==
    IF s = <<>> THEN 0
    ELSE ParseInt(Take(s, Len(s) - 1)) * 10 + (s[Len(s)] - DIGIT0)

IsLeap(y) == y % 4 = 0 /\ (y % 100 # 0 \/ y % 400 = 0)

DaysInMonth(y, m) ==
    IF m = 2 THEN (IF IsLeap(y) THEN 29 ELSE 28)
    ELSE IF m \in {4, 6, 9, 11} THEN 30 ELSE 31

RECURSIVE DaysBeforeMonth(_, _)
DaysBeforeMonth(y, m) ==
    IF m = 1 THEN 0 ELSE DaysBeforeMonth(y, m - 1) + DaysInMonth(y, m - 1)

\* date(y, m, d).toordinal(); date(1, 1, 1) is day 1, a Monday.
ToOrdinal(y, m, d) ==
    (y - 1) * 365 + ((y - 1) \div 4) - ((y - 1) \div 100) + ((y - 1) \div 400)
    + DaysBeforeMonth(y, m) + d

\* date(y, m, d) raises ValueError unless this holds (MINYEAR = 1).
ValidDate(y, m, d) ==
    /\ 1 <= y /\ y <= 9999
    /\ 1 <= m /\ m <= 12
    /\ 1 <= d /\ d <= DaysInMonth(y, m)

\* WEEKDAYS_JP[_date(y, mo, d).weekday()], NoneStr when _date raises.
WeekdayOf(y, mo, d) ==
    IF ValidDate(y, mo, d)
    THEN <<WEEKDAYS_JP[((ToOrdinal(y, mo, d) + 6) % 7) + 1]>>
    ELSE NoneStr

\* _weekday_jp(date_str): YYYY/MM/DD -> <<kanji>>, or NoneStr
WeekdayJp(date_str) ==
    WeekdayOf(ParseInt(SubSeq(date_str, 1, 4)),
              ParseInt(SubSeq(date_str, 6, 7)),
              ParseInt(SubSeq(date_str, 9, 10)))

\* f"{date_str}({wd})" if wd else date_str
WithWeekday(date_str, wd) ==
    IF wd # NoneStr THEN date_str \o <<LPAREN>> \o wd \o <<RPAREN>> ELSE date_str

\* _append_or_fix_weekday(date_str)
AppendOrFixWeekday(date_str) == WithWeekday(date_str, WeekdayJp(date_str))

\* ------------------------------------------------------------------------
\* Line normalizers
\* ------------------------------------------------------------------------
\* "\n" if line.endswith("\n") else ""
LineEnd(line) == IF EndsWithLF(line) THEN <<LF>> ELSE <<>>

\* A variant of ChildRest that collapses every leading whitespace of a
\* non-empty rest to one space, also when rest already starts with a space.
ChildRestCollapse(rest) ==
    IF rest # <<>> THEN <<SP>> \o LStrip(rest) ELSE rest

\* rest2 of _normalize_child_line
ChildRest(rest) ==
    IF rest # <<>> /\ rest[1] # SP THEN <<SP>> \o LStrip(rest) ELSE rest

\* is_checked of _normalize_child_line: check_raw.lower() == "x" with
\* check_raw = (m.group("check") or "").strip()
IsChecked(check) == Strip(check) \in {<<LOWERX>>, <<UPPERX>>}

\* f"{indent}- [{check_out}] {dt2}{rest2}"
ChildNewLine(m) ==
    m.indent \o <<DASH, SP, LBRACK>>
    \o (IF IsChecked(m.check) THEN <<LOWERX>> ELSE <<>>)
    \o <<RBRACK, SP>> \o AppendOrFixWeekday(m.date) \o ChildRest(m.rest)

\* What _normalize_child_line returns for the match m of the line:
\* [line, ok, is_checked, date]; ok = FALSE stands for the None in the second
\* place of the returned pair.
ChildResult(line, m) ==
    IF ~m.ok
    THEN [line |-> line, ok |-> FALSE, is_checked |-> FALSE, date |-> <<>>]
    ELSE [line |-> ChildNewLine(m) \o LineEnd(line),
          ok |-> TRUE, is_checked |-> IsChecked(m.check), date |-> m.date]

\* _normalize_child_line(line)
NormalizeChildLine(line) == ChildResult(line, ChildLineMatch(RStripLF(line)))

\* f"{prefix} {date} {title}".rstrip() + ("\n" if header_line.endswith("\n") else "")
FormatHeader(prefix, date, title, header_line) ==
    RStrip(prefix \o <<SP>> \o date \o <<SP>> \o title) \o LineEnd(header_line)

\* What _normalize_header_line returns for the match m of the header line.
HeaderResult(header_line, m) ==
    IF ~m.ok THEN header_line
    ELSE FormatHeader(m.prefix, AppendOrFixWeekday(m.date), m.title, header_line)

\* _normalize_header_line(header_line)
NormalizeHeaderLine(header_line) ==
    HeaderResult(header_line, HeaderWithDateMatch(RStripLF(header_line)))

\* ------------------------------------------------------------------------
\* Chunk (a frozen dataclass holding text: modelled as its text)
\* ------------------------------------------------------------------------
\* Chunk.first_line
first_line(text) ==
    IF text = <<>> THEN <<>> ELSE StripBreak(Head(SplitLines(text)))

\* Chunk.is_header_chunk
is_header_chunk(text) == StartsWith(first_line(text), HeaderMarker)

\* m.group("tag").strip(), None when HEADER_RE did not match
StripTag(t) == IF t = NoneStr THEN NoneStr ELSE Strip(t)

\* Chunk.tag
tag(text) ==
    IF ~is_header_chunk(text) THEN NoneStr ELSE StripTag(HeaderReTag(first_line(text)))

\* [_normalize_child_line(line) for line in lines]
NormalizedChildren(lines) ==
    [i \in 1..Len(lines) |-> NormalizeChildLine(lines[i])]

\* The new lines of the normalized children.
ChildLines(kids) == [i \in 1..Len(kids) |-> kids[i].line]

\* unchecked_dates of rewrite_header_date_from_children, as a set.
UncheckedDatesOf(kids) ==
    {kids[i].date : i \in {k \in 1..Len(kids) : kids[k].ok /\ ~kids[k].is_checked}}

\* A variant of MinStr that takes the greatest str (max for min).
MaxStr(S) == CHOOSE x \in S : \A y \in S : ~StrLess(x, y)

\* min(unchecked_dates): the least str in code-point order
MinStr(S) == CHOOSE x \in S : \A y \in S : ~StrLess(y, x)

\* out_lines[0] of rewrite_header_date_from_children: header0 when the header
\* has not the header-with-date shape or there is no unchecked date.
RewrittenHeader(header0, mh, unchecked_dates) ==
    IF ~mh.ok \/ unchecked_dates = {} THEN header0
    ELSE FormatHeader(mh.prefix, MinStr(unchecked_dates), mh.title, header0)

\* rewrite_header_date_from_children on the lines of the chunk, with kids the
\* normalized lines[1:].
RewriteWith(header0, kids) ==
    Join(<<RewrittenHeader(header0, HeaderWithDateMatch(RStripLF(header0)),
                           UncheckedDatesOf(kids))>>
         \o ChildLines(kids))

RewriteLines(lines) == RewriteWith(Head(lines), NormalizedChildren(Tail(lines)))

\* Chunk.rewrite_header_date_from_children.  Where the code returns self
\* because nothing changed, the joined lines equal self.text.
rewrite_header_date_from_children(text) ==
    IF ~is_header_chunk(text) \/ text = <<>> THEN text
    ELSE RewriteLines(SplitLines(text))

\* normalize_weekday on the lines of a header chunk / of another chunk.
WeekdayHeaderLines(lines) ==
    Join(<<NormalizeHeaderLine(Head(lines))>> \o ChildLines(NormalizedChildren(Tail(lines))))

WeekdayPlainLines(lines) == Join(ChildLines(NormalizedChildren(lines)))

\* Chunk.normalize_weekday
normalize_weekday(text) ==
    IF text = <<>> THEN text
    ELSE IF is_header_chunk(text) THEN WeekdayHeaderLines(SplitLines(text))
    ELSE WeekdayPlainLines(SplitLines(text))

\* ------------------------------------------------------------------------
\* ChunkParser
\* ------------------------------------------------------------------------
\* A variant of SplitLoop without the flush that follows the loop.
RECURSIVE SplitLoopNoFinalFlush(_, _, _)
SplitLoopNoFinalFlush(lines, chunks, cur) ==
    IF lines = <<>>
    THEN chunks
    ELSE IF StartsWith(Head(lines), HeaderMarker) /\ cur # <<>>
    THEN SplitLoopNoFinalFlush(Tail(lines), Append(chunks, Join(cur)), <<Head(lines)>>)
    ELSE SplitLoopNoFinalFlush(Tail(lines), chunks, Append(cur, Head(lines)))

\* The for loop of ChunkParser.split with its final flush: chunks and cur are
\* the two lists of the code.
RECURSIVE SplitLoop(_, _, _)
SplitLoop(lines, chunks, cur) ==
    IF lines = <<>>
    THEN IF cur # <<>> THEN Append(chunks, Join(cur)) ELSE chunks
    ELSE IF StartsWith(Head(lines), HeaderMarker) /\ cur # <<>>
    THEN SplitLoop(Tail(lines), Append(chunks, Join(cur)), <<Head(lines)>>)
    ELSE SplitLoop(Tail(lines), chunks, Append(cur, Head(lines)))

\* [Chunk(t) for t in chunks] if chunks else [Chunk("")]
ChunksOrEmpty(chunks) == IF chunks # <<>> THEN chunks ELSE << <<>> >>

\* ChunkParser.split(text)
split(text) == ChunksOrEmpty(SplitLoop(SplitLines(text), <<>>, <<>>))

\* ------------------------------------------------------------------------
\* ChunkOrganizer
\* ------------------------------------------------------------------------
\* c.rewrite_header_date_from_children().normalize_weekday()
Normalizer(text) == normalize_weekday(rewrite_header_date_from_children(text))

\* [c.rewrite_header_date_from_children() for c in chunks[1:]] behind the
\* untouched head: the values inside the comprehension of _preprocess_chunks
\* before normalize_weekday is applied to them.
rewritten_chunks(chunks) ==
    IF chunks = <<>> THEN << <<>> >>
    ELSE <<Head(chunks)>>
         \o [i \in 1..(Len(chunks) - 1) |-> rewrite_header_date_from_children(chunks[i + 1])]

\* A variant of preprocess_chunks that normalizes every chunk, the first one
\* too (for c in chunks instead of for c in chunks[1:]).
preprocess_chunks_all(chunks) ==
    IF chunks = <<>> THEN << <<>> >>
    ELSE [i \in 1..Len(chunks) |-> Normalizer(chunks[i])]

\* ChunkOrganizer._preprocess_chunks(chunks)
preprocess_chunks(chunks) ==
    IF chunks = <<>> THEN << <<>> >>
    ELSE <<Head(chunks)>> \o [i \in 1..(Len(chunks) - 1) |-> Normalizer(chunks[i + 1])]

\* The three tests of the partition loop of sort_chunks.
InVoid(c) == tag(c) = <<>>

InW(c) == tag(c) = <<119>>

InOthers(c) == ~InVoid(c) /\ ~InW(c)

\* A variant of InsertDesc that puts an element in front of the elements
\* with an equal key: a descending sort that reverses ties.
RECURSIVE InsertDescUnstable(_, _)
InsertDescUnstable(s, c) ==
    IF s = <<>> THEN <<c>>
    ELSE IF ~StrLess(first_line(c), first_line(Head(s))) THEN <<c>> \o s
    ELSE <<Head(s)>> \o InsertDescUnstable(Tail(s), c)

\* list.sort(key=lambda x: x.first_line, reverse=True): a stable sort, so an
\* element goes behind every element whose key is not smaller than its own.
RECURSIVE InsertDesc(_, _)
InsertDesc(s, c) ==
    IF s = <<>> THEN <<c>>
    ELSE IF StrLess(first_line(Head(s)), first_line(c)) THEN <<c>> \o s
    ELSE <<Head(s)>> \o InsertDesc(Tail(s), c)

RECURSIVE SortDesc(_)
SortDesc(s) ==
    IF s = <<>> THEN <<>>
    ELSE InsertDesc(SortDesc(Take(s, Len(s) - 1)), s[Len(s)])

\* A variant of PartitionAndSort whose result leaves out chunk_w.
PartitionAndSortWithoutW(pre) ==
    <<Head(pre)>>
    \o SortDesc(SelectSeq(Tail(pre), InVoid))
    \o SortDesc(SelectSeq(Tail(pre), InOthers))

\* sort_chunks behind its call of _preprocess_chunks, whose result is pre:
\* the partition into chunk_void, chunk_w and chunk_others, the three sorts
\* and [head] + chunk_void + chunk_w + chunk_others.
PartitionAndSort(pre) ==
    <<Head(pre)>>
    \o SortDesc(SelectSeq(Tail(pre), InVoid))
    \o SortDesc(SelectSeq(Tail(pre), InW))
    \o SortDesc(SelectSeq(Tail(pre), InOthers))

\* ChunkOrganizer.sort_chunks(chunks)
sort_chunks(chunks) == PartitionAndSort(preprocess_chunks(chunks))

\* ------------------------------------------------------------------------
\* Input documents
\* ------------------------------------------------------------------------
\* The most lines of a document of Spec, and the most child lines of the entry
\* of a document of SpecEntry.
MaxLines == 4

MaxChildren == 2

\* 'p'
LinePre ==
    <<112>>

\* '## [] 2026/02/19(Mon) A'
LineVoid ==
    <<35, 35, 32, 91, 93, 32, 50, 48, 50, 54, 47, 48, 50, 47, 49, 57, 40, 77,
    111, 110, 41, 32, 65>>

\* '## [w ]2026/02/20 B'
LineW ==
    <<35, 35, 32, 91, 119, 32, 93, 50, 48, 50, 54, 47, 48, 50, 47, 50, 48,
    32, 66>>

\* '## [x] T'
LineOther ==
    <<35, 35, 32, 91, 120, 93, 32, 84>>

\* '- 2026/02/10 n'
LineChild ==
    <<45, 32, 50, 48, 50, 54, 47, 48, 50, 47, 49, 48, 32, 110>>

\* '## [] 2026/02/13 Task'
HdrPlain ==
    <<35, 35, 32, 91, 93, 32, 50, 48, 50, 54, 47, 48, 50, 47, 49, 51, 32, 84,
    97, 115, 107>>

\* '## [w]2026/02/30(Mon)(Tue) A'
HdrBadDate ==
    <<35, 35, 32, 91, 119, 93, 50, 48, 50, 54, 47, 48, 50, 47, 51, 48, 40,
    77, 111, 110, 41, 40, 84, 117, 101, 41, 32, 65>>

\* '## [x] 2026/02/19 (日)'
HdrWrongWd ==
    <<35, 35, 32, 91, 120, 93, 32, 50, 48, 50, 54, 47, 48, 50, 47, 49, 57,
    32, 40, 26085, 41>>

\* '## [] T'
HdrNoDate ==
    <<35, 35, 32, 91, 93, 32, 84>>

\* '- [] 2026/02/19(Mon) note'
KidOpen ==
    <<45, 32, 91, 93, 32, 50, 48, 50, 54, 47, 48, 50, 47, 49, 57, 40, 77,
    111, 110, 41, 32, 110, 111, 116, 101>>

\* '- [x] 2026/02/10(Tue) done'
KidDone ==
    <<45, 32, 91, 120, 93, 32, 50, 48, 50, 54, 47, 48, 50, 47, 49, 48, 40,
    84, 117, 101, 41, 32, 100, 111, 110, 101>>

\* '  -[X]2026/03/01z'
KidJammed ==
    <<32, 32, 45, 91, 88, 93, 50, 48, 50, 54, 47, 48, 51, 47, 48, 49, 122>>

\* '- 2026/02/14  z'
KidWide ==
    <<45, 32, 50, 48, 50, 54, 47, 48, 50, 47, 49, 52, 32, 32, 122>>

\* '- [ ] 2024/02/29 (金)\tq'
KidLeap ==
    <<45, 32, 91, 32, 93, 32, 50, 48, 50, 52, 47, 48, 50, 47, 50, 57, 32, 40,
    37329, 41, 9, 113>>

\* '- [] 2026/02/30(Mon)(Tue)(Wed)'
KidBadDate ==
    <<45, 32, 91, 93, 32, 50, 48, 50, 54, 47, 48, 50, 47, 51, 48, 40, 77,
    111, 110, 41, 40, 84, 117, 101, 41, 40, 87, 101, 100, 41>>

\* '- [] 2026/02/13'
KidBare ==
    <<45, 32, 91, 93, 32, 50, 48, 50, 54, 47, 48, 50, 47, 49, 51>>

\* '- note'
KidText ==
    <<45, 32, 110, 111, 116, 101>>

DocLines == {LinePre, LineVoid, LineW, LineOther, LineChild}

Headers == {HdrPlain, HdrBadDate, HdrWrongWd, HdrNoDate}

Children ==
    {KidOpen, KidDone, KidJammed, KidWide, KidLeap, KidBadDate, KidBare, KidText}

\* The lines joined into one text, each ended by a line feed, the last one only
\* when final_lf holds.
RECURSIVE Document(_, _)
Document(lines, final_lf) ==
    IF lines = <<>> THEN <<>>
    ELSE IF Len(lines) = 1 THEN Head(lines) \o (IF final_lf THEN <<LF>> ELSE <<>>)
    ELSE Head(lines) \o <<LF>> \o Document(Tail(lines), final_lf)

SeqsUpTo(S, n) == UNION {[1..k -> S] : k \in 0..n}

\* Every document of at most MaxLines lines drawn from DocLines.
Documents ==
    {Document(ls, f) : ls \in SeqsUpTo(DocLines, MaxLines), f \in BOOLEAN}

\* Every document made of the preamble line and one entry: a header and at most
\* MaxChildren child lines.
EntryDocuments ==
    {Document(<<LinePre, h>> \o ks, f) :
         h \in Headers, ks \in SeqsUpTo(Children, MaxChildren), f \in BOOLEAN}

\* ------------------------------------------------------------------------
\* TextSorterApp.run as a state machine
\* ------------------------------------------------------------------------
VARIABLES
    text,     \* what read_text returned
    pc,       \* the position in run: "read", "split", "sorted", "done"
    chunks,   \* the result of parser.split(text)
    rewritten, \* inside _preprocess_chunks: the head and each further chunk
              \* after rewrite_header_date_from_children
    pre,      \* the result of _preprocess_chunks inside sort_chunks
    sorted,   \* the result of organizer.sort_chunks(chunks)
    out,      \* the value run returns
    pass      \* 1: the first run; 2: the run on the output of the first

vars == <<text, pc, chunks, rewritten, pre, sorted, out, pass>>

InitWith(docs) ==
    /\ text \in docs
    /\ pc = "read"
    /\ chunks = <<>>
    /\ rewritten = <<>>
    /\ pre = <<>>
    /\ sorted = <<>>
    /\ out = <<>>
    /\ pass = 1

Init == InitWith(Documents)

InitEntry == InitWith(EntryDocuments)

\* chunks = self.parser.split(text)
Split ==
    /\ pc = "read"
    /\ chunks' = split(text)
    /\ pc' = "split"
    /\ UNCHANGED <<text, rewritten, pre, sorted, out, pass>>

\* sorted_chunks = self.organizer.sort_chunks(chunks)
SortChunks ==
    /\ pc = "split"
    /\ rewritten' = rewritten_chunks(chunks)
    /\ pre' = preprocess_chunks(chunks)
    /\ sorted' = sort_chunks(chunks)
    /\ pc' = "sorted"
    /\ UNCHANGED <<text, chunks, out, pass>>

\* return "".join(c.text for c in sorted_chunks)
Return ==
    /\ pc = "sorted"
    /\ out' = Join(sorted)
    /\ pc' = "done"
    /\ UNCHANGED <<text, chunks, rewritten, pre, sorted, pass>>

\* The program is run again on the text it produced.
Rerun ==
    /\ pc = "done"
    /\ pass = 1
    /\ text' = out
    /\ pc' = "read"
    /\ pass' = 2
    /\ UNCHANGED <<chunks, rewritten, pre, sorted, out>>

Next == Split \/ SortChunks \/ Return \/ Rerun

Spec == Init /\ [][Next]_vars

SpecEntry == InitEntry /\ [][Next]_vars

\* ------------------------------------------------------------------------
\* Vocabulary of the properties
\* ------------------------------------------------------------------------
\* chunks belongs to the text of the current run; so do rewritten, pre and
\* sorted once sort_chunks has returned.
HasSplit == pc \in {"split", "sorted", "done"}

HasSorted == pc \in {"sorted", "done"}

Range(s) == {s[k] : k \in 1..Len(s)}

Count(s, c) == Cardinality({k \in 1..Len(s) : s[k] = c})

\* The weekday of a date by Zeller's congruence (0 = Monday .. 6 = Sunday),
\* computed without the ordinal-day arithmetic of WeekdayJp.
ZellerWeekday(y, m, d) ==
    LET mm == IF m < 3 THEN m + 12 ELSE m
        yy == IF m < 3 THEN y - 1 ELSE y
        k == yy % 100
        j == yy \div 100
        h == (d + ((13 * (mm + 1)) \div 5) + k + (k \div 4) + (j \div 4) + 5 * j) % 7
    IN  (h + 5) % 7

MonthLengths(y) ==
    <<31, IF (y % 4 = 0 /\ y % 100 # 0) \/ y % 400 = 0 THEN 29 ELSE 28,
      31, 30, 31, 30, 31, 31, 30, 31, 30, 31>>

Year(date) ==
    (date[1] - 48) * 1000 + (date[2] - 48) * 100 + (date[3] - 48) * 10 + (date[4] - 48)

Month(date) == (date[6] - 48) * 10 + (date[7] - 48)

Day(date) == (date[9] - 48) * 10 + (date[10] - 48)

IsCalendarDate(date) ==
    /\ Year(date) \in 1..9999
    /\ Month(date) \in 1..12
    /\ Day(date) \in 1..MonthLengths(Year(date))[Month(date)]

\* The weekday suffix a date token must carry: "(" kanji ")" for a calendar
\* date, none for a date value that is no calendar date.
CorrectSuffix(date) ==
    IF IsCalendarDate(date)
    THEN <<LPAREN,
           WEEKDAYS_JP[ZellerWeekday(Year(date), Month(date), Day(date)) + 1],
           RPAREN>>
    ELSE <<>>

\* The header-with-date fields of the first line of an entry.
HeaderOf(c) == HeaderWithDateMatch(first_line(c))

\* The child-line fields of line k of an entry.
ChildOf(c, k) == ChildLineMatch(RStripLF(SplitLines(c)[k]))

IsCheckedBox(check) == check \in {<<LOWERX>>, <<UPPERX>>}

\* The lines of an entry that are recognized child lines, unchecked / checked.
UncheckedKids(c) ==
    LET ls == SplitLines(c)
    IN  {k \in 2..Len(ls) :
             LET m == ChildLineMatch(RStripLF(ls[k]))
             IN  m.ok /\ ~IsCheckedBox(m.check)}

CheckedKids(c) ==
    LET ls == SplitLines(c)
    IN  {k \in 2..Len(ls) :
             LET m == ChildLineMatch(RStripLF(ls[k]))
             IN  m.ok /\ IsCheckedBox(m.check)}

UncheckedDates(c) ==
    LET ls == SplitLines(c)
    IN  {ChildLineMatch(RStripLF(ls[k])).date : k \in UncheckedKids(c)}

\* The bucket of an entry: 0 void, 1 w, 2 other.
BucketOf(c) ==
    LET t == HeaderReTag(first_line(c))
    IN  IF t = NoneStr THEN 2
        ELSE IF Strip(t) = <<>> THEN 0
        ELSE IF Strip(t) = <<119>> THEN 1
        ELSE 2

\* The entries of s with bucket b and first line f, in the order of s.
RECURSIVE KeyClass(_, _, _)
KeyClass(s, b, f) ==
    IF s = <<>> THEN <<>>
    ELSE IF BucketOf(Head(s)) = b /\ first_line(Head(s)) = f
    THEN <<Head(s)>> \o KeyClass(Tail(s), b, f)
    ELSE KeyClass(Tail(s), b, f)

\* The lines of a text that precede its first line beginning with "## [".
LinesBeforeFirstMarker(t) ==
    LET ls == SplitLines(t)
        hs == {k \in 1..Len(ls) : StartsWith(ls[k], HeaderMarker)}
    IN  IF hs = {} THEN t ELSE Join(SubSeq(ls, 1, Min(hs) - 1))

\* The canonical child line for the matched fields m, with rest2 as its
\* trailing text, ended like the line it replaces.
CanonicalChild(m, rest2, line) ==
    m.indent \o <<DASH, SP, LBRACK>>
    \o (IF IsCheckedBox(m.check) THEN <<LOWERX>> ELSE <<>>)
    \o <<RBRACK, SP>> \o m.date \o CorrectSuffix(m.date) \o rest2
    \o (IF EndsWithLF(line) THEN <<LF>> ELSE <<>>)

\* Trailing text with its leading whitespace collapsed to exactly one space.
CollapsedRest(rest) == IF rest = <<>> THEN <<>> ELSE <<SP>> \o LStrip(rest)

\* Trailing text kept as it is when it is empty or starts with a space, and
\* otherwise led by one space in place of its leading whitespace.
SpacedRest(rest) ==
    IF rest = <<>> \/ rest[1] = SP THEN rest ELSE <<SP>> \o LStrip(rest)

\* ------------------------------------------------------------------------
\* Properties
\* ------------------------------------------------------------------------
\* C1: running the pipeline on its own output returns that output unchanged:
\* P(P(text)) = P(text).  In the second pass text is the first pass's output.
C1_Idempotent == (pass = 2 /\ pc = "done") => out = text

\* C2: the first entry sort_chunks returns has exactly the text of entry 0 of
\* split, and run's output begins with it: the preamble is not normalized, not
\* moved and not dropped.
C2_PreamblePreserved ==
    HasSorted =>
        /\ Len(sorted) >= 1
        /\ sorted[1] = chunks[1]
        /\ pc = "done" => StartsWith(out, chunks[1])

\* C2 witness: entry 0 is one the Normalizer would change, and the entries
\* behind it were reordered.
C2_Witness ==
    /\ pc = "sorted"
    /\ Len(chunks) >= 3
    /\ Normalizer(chunks[1]) # chunks[1]
    /\ Tail(sorted) # Tail(pre)
    /\ sorted[1] = chunks[1]

\* C3: after the Normalizer, the header date of an entry whose header has the
\* header-with-date shape is the least date of its unchecked recognized child
\* lines, and the input header date when it has none.
C3_HeaderDate ==
    HasSorted =>
        \A i \in 2..Len(chunks) :
            LET hin == HeaderOf(chunks[i])
                hout == HeaderOf(pre[i])
                dates == UncheckedDates(chunks[i])
            IN  hin.ok =>
                    /\ hout.ok
                    /\ IF dates # {}
                       THEN /\ hout.date \in dates
                            /\ \A d \in dates : ~StrLess(d, hout.date)
                       ELSE hout.date = hin.date

\* C3 witness: every unchecked child is dated after the input header, a checked
\* child is dated before it, and the header took the least unchecked date.
C3_Witness ==
    /\ pc = "sorted"
    /\ \E i \in 2..Len(chunks) :
           LET hin == HeaderOf(chunks[i])
               dates == UncheckedDates(chunks[i])
           IN  /\ hin.ok
               /\ dates # {}
               /\ \A d \in dates : StrLess(hin.date, d)
               /\ \E k \in CheckedKids(chunks[i]) :
                      StrLess(ChildOf(chunks[i], k).date, hin.date)
               /\ HeaderOf(pre[i]).date \in dates

\* C4: after the Normalizer every date token of a header-with-date line and of
\* a recognized child line carries the weekday suffix of its date, and no
\* suffix when the date value is no calendar date.
C4_WeekdayCorrect ==
    HasSorted =>
        \A i \in 2..Len(pre) :
            /\ HeaderOf(pre[i]).ok =>
                   HeaderOf(pre[i]).wd = CorrectSuffix(HeaderOf(pre[i]).date)
            /\ \A k \in 2..Len(SplitLines(pre[i])) :
                   ChildOf(pre[i], k).ok =>
                       ChildOf(pre[i], k).wd = CorrectSuffix(ChildOf(pre[i], k).date)

\* The part of C4 about calendar dates: their tokens carry the right suffix.
WeekdayCorrectForCalendarDates ==
    HasSorted =>
        \A i \in 2..Len(pre) :
            /\ (HeaderOf(pre[i]).ok /\ IsCalendarDate(HeaderOf(pre[i]).date)) =>
                   HeaderOf(pre[i]).wd = CorrectSuffix(HeaderOf(pre[i]).date)
            /\ \A k \in 2..Len(SplitLines(pre[i])) :
                   (ChildOf(pre[i], k).ok /\ IsCalendarDate(ChildOf(pre[i], k).date)) =>
                       ChildOf(pre[i], k).wd = CorrectSuffix(ChildOf(pre[i], k).date)

\* C5: behind the preamble the entries sort_chunks returns are ordered by
\* bucket (void, w, other), inside a bucket by first_line descending, and
\* entries of one bucket with equal first_line keep their input order.
C5_SortOrder ==
    HasSorted =>
        /\ \A i, j \in 2..Len(sorted) :
               i < j =>
                   /\ BucketOf(sorted[i]) <= BucketOf(sorted[j])
                   /\ BucketOf(sorted[i]) = BucketOf(sorted[j]) =>
                          ~StrLess(first_line(sorted[i]), first_line(sorted[j]))
        /\ \A i \in 2..Len(sorted) :
               KeyClass(Tail(sorted), BucketOf(sorted[i]), first_line(sorted[i]))
                   = KeyClass(Tail(pre), BucketOf(sorted[i]), first_line(sorted[i]))

\* C5 witness: two different entries of one bucket have the same first_line.
C5_Witness ==
    /\ pc = "sorted"
    /\ \E i, j \in 2..Len(sorted) :
           /\ i < j
           /\ BucketOf(sorted[i]) = BucketOf(sorted[j])
           /\ first_line(sorted[i]) = first_line(sorted[j])
           /\ sorted[i] # sorted[j]

\* C6: every entry behind the preamble falls in exactly one bucket, and the
\* entries sort_chunks returns behind the preamble are a permutation of the
\* normalized input entries: as many, none lost, none duplicated.
C6_Permutation ==
    HasSorted =>
        LET norm == [i \in 1..(Len(chunks) - 1) |-> Normalizer(chunks[i + 1])]
        IN  /\ Len(sorted) = Len(chunks)
            /\ \A c \in Range(norm) \cup Range(Tail(sorted)) :
                   Count(norm, c) = Count(Tail(sorted), c)
            /\ \A c \in Range(norm) :
                   Cardinality({b \in 0..2 :
                                    \/ b = 0 /\ InVoid(c)
                                    \/ b = 1 /\ InW(c)
                                    \/ b = 2 /\ InOthers(c)}) = 1

\* C6 witness: each of the three buckets holds an entry and the order changed.
C6_Witness ==
    /\ pc = "sorted"
    /\ \A b \in 0..2 : \E i \in 2..Len(sorted) : BucketOf(sorted[i]) = b
    /\ Tail(sorted) # Tail(pre)

\* C7: entry 0 of split(text) is made of exactly the lines before the first
\* line beginning with "## [", so it is never a header entry.
C7_PreambleBeforeFirstMarker ==
    HasSplit =>
        /\ chunks[1] = LinesBeforeFirstMarker(text)
        /\ ~is_header_chunk(chunks[1])

\* C8: split is lossless and keeps the order: its result is not empty (one
\* empty entry for the empty text), the entries joined give the text, every
\* entry behind the first begins with a "## [" line, and no entry has such a
\* line behind its first line.
C8_LosslessSplit ==
    HasSplit =>
        /\ Len(chunks) >= 1
        /\ text = <<>> => chunks = << <<>> >>
        /\ Join(chunks) = text
        /\ \A i \in 2..Len(chunks) : StartsWith(chunks[i], HeaderMarker)
        /\ \A i \in 1..Len(chunks) :
               \A k \in 2..Len(SplitLines(chunks[i])) :
                   ~StartsWith(SplitLines(chunks[i])[k], HeaderMarker)

\* C8 witness: a text without a final line feed was split into three or more
\* entries, one of them of several lines.
C8_Witness ==
    /\ pc = "split"
    /\ Len(chunks) >= 3
    /\ ~EndsWithLF(text)
    /\ \E i \in 1..Len(chunks) : Len(SplitLines(chunks[i])) >= 2

\* C9 as stated: _normalize_child_line rewrites every recognized child line to
\* indentation, "- ", the indicator, " ", the normalized date token and the
\* trailing text with its leading whitespace collapsed to exactly one space.
C9_RestCollapsed ==
    HasSorted =>
        \A i \in 2..Len(chunks) :
            LET lines_in == SplitLines(chunks[i])
                lines_out == SplitLines(rewritten[i])
            IN  \A k \in 2..Len(lines_in) :
                    LET m == ChildLineMatch(RStripLF(lines_in[k]))
                    IN  m.ok =>
                            lines_out[k] = CanonicalChild(m, CollapsedRest(m.rest), lines_in[k])

\* C9 as amended: the same shape, but the trailing text is kept verbatim when
\* it is empty or starts with a space (however many spaces), and otherwise is
\* led by one space in place of its leading whitespace.
C9_RestSpaced ==
    HasSorted =>
        \A i \in 2..Len(chunks) :
            LET lines_in == SplitLines(chunks[i])
                lines_out == SplitLines(rewritten[i])
            IN  \A k \in 2..Len(lines_in) :
                    LET m == ChildLineMatch(RStripLF(lines_in[k]))
                    IN  m.ok =>
                            lines_out[k] = CanonicalChild(m, SpacedRest(m.rest), lines_in[k])

\* C9 witness: a recognized child line whose trailing text starts with two
\* spaces was rewritten and still has both.
C9_Witness ==
    /\ pc = "sorted"
    /\ \E i \in 2..Len(chunks) :
           \E k \in 2..Len(SplitLines(chunks[i])) :
               /\ ChildOf(chunks[i], k).ok
               /\ Len(ChildOf(chunks[i], k).rest) >= 3
               /\ SubSeq(ChildOf(chunks[i], k).rest, 1, 2) = <<SP, SP>>
               /\ SplitLines(rewritten[i])[k] # SplitLines(chunks[i])[k]
               /\ ChildOf(rewritten[i], k).rest = ChildOf(chunks[i], k).rest

\* C10: split applied to the text run returns yields exactly the entries
\* sort_chunks returned: reordering joins no two lines.
C10_BoundariesSurvive == pc = "done" => split(out) = sorted

====
